---- MODULE Spec2Model ----
(***************************************************************************)
(* Version history of a story in the FigDoc editor: the Editor component   *)
(* (createSnapshot, handleRevert, handleFieldChange, handleSmartAction,    *)
(* the preview selection) and the ProjectWorkspace that owns the project   *)
(* (handleUpdateStory, the active story).                                  *)
(*                                                                         *)
(* Time is the value Date.now() returns, counted from the start of the     *)
(* session: versions kept from an earlier session have negative times.     *)
(* Strings that the code builds by concatenation (version ids, author      *)
(* labels) are sequences of their parts.  The acceptanceCriteria arrays    *)
(* are objects of a heap: a snapshot and the story may hold the same       *)
(* array, as they do in the code, which copies references.                 *)
(***************************************************************************)
EXTENDS Integers, Sequences, FiniteSets, TLC

VARIABLES
  project,          \* the Project held in AppState.projects (App.tsx)
  activeStoryId,    \* ProjectWorkspace.activeStoryId
  previewVersionId, \* Editor.previewVersionId
  showHistory,      \* Editor.showHistory
  isChatLoading,    \* Editor.isChatLoading
  pending,          \* AI calls awaited by handleSmartAction, with their closures
  clock,            \* Date.now()
  heap,             \* the acceptanceCriteria arrays; a story or a version holds
                    \* the position of its array (a reference)
  edits,            \* committed field edits so far
  captures          \* createSnapshot calls so far

vars == <<project, activeStoryId, previewVersionId, showHistory,
          isChatLoading, pending, clock, heap, edits, captures>>

(***************************************************************************)
(* Bounds of the model.                                                    *)
(***************************************************************************)
MaxClock == 1
MaxEdits == 1
MaxCaptures == 2
MaxPending == 2
MaxIndex == 2
NumLabelled == 25

(***************************************************************************)
(* Program constants and input domains.                                    *)
(***************************************************************************)
MAX_VERSIONS == 20

\* Date.now() counts milliseconds
MS_PER_SECOND == 1000

NULL == "null"

\* null where a version id is expected (ids are sequences of their parts)
NO_VERSION == <<>>

Texts == {"A", "B"}

Statuses == {"Draft", "Ready", "In Progress", "Completed"}

TextFields == {"title", "description", "happyPath", "sadPath", "figmaUrl"}

ContentFields == {"title", "description", "acceptanceCriteria", "happyPath", "sadPath"}

CURRENT_USER == "u1"

FigmaLink == "https://www.figma.com/file/abc"

ChatInputs == {"", " ", "refine", FigmaLink}

\* What the model returns: the four fields of the response schema, or the
\* empty object that JSON.parse(response.text || '{}') gives for empty text.
GeneratedFull ==
  [description |-> "G", acceptanceCriteria |-> <<"G">>, happyPath |-> "G", sadPath |-> "G"]

GeneratedEmpty == <<>>

GeneratedStories == {GeneratedFull, GeneratedEmpty}

(***************************************************************************)
(* JavaScript helpers.                                                     *)
(***************************************************************************)
Min(a, b) == IF a < b THEN a ELSE b

\* { ...a, ...b }
Spread(a, b) ==
  [k \in (DOMAIN a) \cup (DOMAIN b) |-> IF k \in DOMAIN b THEN b[k] ELSE a[k]]

\* Array.prototype.slice(from, to), zero-based, end exclusive
Slice(s, from, to) == SubSeq(s, from + 1, Min(to, Len(s)))

\* Array.prototype.filter((_, i) => i !== idx), idx zero-based
RemoveAt(s, idx) ==
  [i \in 1..(IF idx < Len(s) THEN Len(s) - 1 ELSE Len(s)) |->
     IF i <= idx THEN s[i] ELSE s[i + 1]]

\* String.prototype.trim on the inputs of ChatInputs
Trim(s) == IF s = " " THEN "" ELSE s

\* `v-${Date.now()}`
VersionId(now) == <<"v-", now>>

\* new Date(timestamp).toLocaleTimeString(): the time of day to the second
LocaleTimeString(timestamp) == timestamp \div MS_PER_SECOND

(***************************************************************************)
(* Editor: pure parts.                                                     *)
(***************************************************************************)
\* figmaDetection / detectedFigmaUrl
detectedFigmaUrl(chatInput) == IF chatInput = FigmaLink THEN FigmaLink ELSE NULL

\* story.versions.find(v => v.id === id): the first position with that id, 0 if none
FindVersion(versions, id) ==
  IF \E i \in 1..Len(versions) : versions[i].id = id
  THEN CHOOSE i \in 1..Len(versions) :
         /\ versions[i].id = id
         /\ \A j \in 1..(i - 1) : versions[j].id # id
  ELSE 0

displayedStory(story, previewId) ==
  IF previewId # NO_VERSION /\ FindVersion(story.versions, previewId) # 0
  THEN LET version == story.versions[FindVersion(story.versions, previewId)]
       IN [story EXCEPT !.title = version.title,
                        !.description = version.description,
                        !.acceptanceCriteria = version.acceptanceCriteria,
                        !.happyPath = version.happyPath,
                        !.sadPath = version.sadPath]
  ELSE story

\* createSnapshot that keeps every version
createSnapshot_NoSlice(story, author, customStory, idNow, tsNow) ==
  LET targetStory == Spread(story, customStory)
  IN <<[id |-> VersionId(idNow), timestamp |-> tsNow, title |-> targetStory.title,
        description |-> targetStory.description,
        acceptanceCriteria |-> targetStory.acceptanceCriteria,
        happyPath |-> targetStory.happyPath, sadPath |-> targetStory.sadPath,
        authorName |-> author]>> \o story.versions

\* createSnapshot that adds the new version at the end
createSnapshot_Append(story, author, customStory, idNow, tsNow) ==
  LET targetStory == Spread(story, customStory)
  IN Slice(story.versions \o
           <<[id |-> VersionId(idNow), timestamp |-> tsNow, title |-> targetStory.title,
              description |-> targetStory.description,
              acceptanceCriteria |-> targetStory.acceptanceCriteria,
              happyPath |-> targetStory.happyPath, sadPath |-> targetStory.sadPath,
              authorName |-> author]>>, 0, MAX_VERSIONS)

\* createSnapshot that cuts one entry too many
createSnapshot_CutShort(story, author, customStory, idNow, tsNow) ==
  LET targetStory == Spread(story, customStory)
  IN Slice(<<[id |-> VersionId(idNow), timestamp |-> tsNow, title |-> targetStory.title,
              description |-> targetStory.description,
              acceptanceCriteria |-> targetStory.acceptanceCriteria,
              happyPath |-> targetStory.happyPath, sadPath |-> targetStory.sadPath,
              authorName |-> author]>> \o story.versions, 0, MAX_VERSIONS - 1)

\* createSnapshot(author, customStory) of the render that shows `story`;
\* idNow and tsNow are the two reads of Date.now().
createSnapshot(story, author, customStory, idNow, tsNow) ==
  LET targetStory == Spread(story, customStory)
      newVersion == [id |-> VersionId(idNow),
                     timestamp |-> tsNow,
                     title |-> targetStory.title,
                     description |-> targetStory.description,
                     acceptanceCriteria |-> targetStory.acceptanceCriteria,
                     happyPath |-> targetStory.happyPath,
                     sadPath |-> targetStory.sadPath,
                     authorName |-> author]
  IN Slice(<<newVersion>> \o story.versions, 0, MAX_VERSIONS)

\* handleRevert that takes the snapshot of the story after the restore
RevertedStory_SnapshotAfter(story, version, idNow, tsNow) ==
  [story EXCEPT !.title = version.title,
                !.description = version.description,
                !.acceptanceCriteria = version.acceptanceCriteria,
                !.happyPath = version.happyPath,
                !.sadPath = version.sadPath,
                !.versions = createSnapshot(story,
                               <<"Rollback to ", LocaleTimeString(version.timestamp)>>,
                               [title |-> version.title,
                                description |-> version.description,
                                acceptanceCriteria |-> version.acceptanceCriteria,
                                happyPath |-> version.happyPath,
                                sadPath |-> version.sadPath], idNow, tsNow)]

\* handleRevert that takes no snapshot
RevertedStory_NoSnapshot(story, version, idNow, tsNow) ==
  [story EXCEPT !.title = version.title,
                !.description = version.description,
                !.acceptanceCriteria = version.acceptanceCriteria,
                !.happyPath = version.happyPath,
                !.sadPath = version.sadPath]

\* handleRevert that leaves the author label of createSnapshot to its default
RevertedStory_DefaultAuthor(story, version, idNow, tsNow) ==
  [story EXCEPT !.title = version.title,
                !.description = version.description,
                !.acceptanceCriteria = version.acceptanceCriteria,
                !.happyPath = version.happyPath,
                !.sadPath = version.sadPath,
                !.versions = createSnapshot(story, <<"Gemini AI">>, <<>>, idNow, tsNow)]

\* handleRevert that forgets the error scenarios
RevertedStory_KeepsSadPath(story, version, idNow, tsNow) ==
  [story EXCEPT !.title = version.title,
                !.description = version.description,
                !.acceptanceCriteria = version.acceptanceCriteria,
                !.happyPath = version.happyPath,
                !.versions = createSnapshot(story,
                               <<"Rollback to ", LocaleTimeString(version.timestamp)>>,
                               <<>>, idNow, tsNow)]

\* handleRevert that starts the history anew
RevertedStory_FreshHistory(story, version, idNow, tsNow) ==
  [story EXCEPT !.title = version.title,
                !.description = version.description,
                !.acceptanceCriteria = version.acceptanceCriteria,
                !.happyPath = version.happyPath,
                !.sadPath = version.sadPath,
                !.versions = createSnapshot([story EXCEPT !.versions = <<>>],
                               <<"Rollback to ", LocaleTimeString(version.timestamp)>>,
                               <<>>, idNow, tsNow)]

\* The story handleRevert passes to onUpdate.
RevertedStory(story, version, idNow, tsNow) ==
  [story EXCEPT !.title = version.title,
                !.description = version.description,
                !.acceptanceCriteria = version.acceptanceCriteria,
                !.happyPath = version.happyPath,
                !.sadPath = version.sadPath,
                !.versions = createSnapshot(story,
                               <<"Rollback to ", LocaleTimeString(version.timestamp)>>,
                               <<>>, idNow, tsNow)]

\* handleSmartAction that takes the snapshot without the generated content
GeneratedStory_SnapshotBefore(story, generated, figmaUrl, idNow, tsNow) ==
  IF figmaUrl # NULL
  THEN Spread(Spread(story, generated),
              [figmaUrl |-> figmaUrl,
               versions |-> createSnapshot(story, <<"Figma AI Bridge">>, <<>>, idNow, tsNow)])
  ELSE Spread(Spread(story, generated),
              [versions |-> createSnapshot(story, <<"AI Architect">>, <<>>, idNow, tsNow)])

\* The story handleSmartAction passes to onUpdate when the call returns.
GeneratedStory(story, generated, figmaUrl, idNow, tsNow) ==
  IF figmaUrl # NULL
  THEN Spread(Spread(story, generated),
              [figmaUrl |-> figmaUrl,
               versions |-> createSnapshot(story, <<"Figma AI Bridge">>, generated, idNow, tsNow)])
  ELSE Spread(Spread(story, generated),
              [versions |-> createSnapshot(story, <<"AI Architect">>, generated, idNow, tsNow)])

\* newAC of handleACChange: a copy with position index (zero-based) replaced;
\* writing past the end extends the array and leaves holes.
ACChanged(ac, index, value) ==
  [i \in 1..(IF index + 1 > Len(ac) THEN index + 1 ELSE Len(ac)) |->
     IF i = index + 1 THEN value
     ELSE IF i <= Len(ac) THEN ac[i] ELSE "undefined"]

(***************************************************************************)
(* ProjectWorkspace: pure parts.                                           *)
(***************************************************************************)
\* project.epics.flatMap(e => e.stories)
RECURSIVE FlatStories(_)
FlatStories(epics) ==
  IF epics = <<>> THEN <<>> ELSE Head(epics).stories \o FlatStories(Tail(epics))

\* whether project.epics.flatMap(e => e.stories).find(s => s.id === id) finds a story
HasStory(proj, id) ==
  \E i \in 1..Len(FlatStories(proj.epics)) : FlatStories(proj.epics)[i].id = id

\* activeStory: the first story of the project with the active id
activeStory(proj, id) ==
  LET all == FlatStories(proj.epics)
  IN all[CHOOSE i \in 1..Len(all) :
           /\ all[i].id = id
           /\ \A j \in 1..(i - 1) : all[j].id # id]

\* handleUpdateStory of the render that shows `proj`, followed by
\* handleUpdateProject, which puts the result in place of the project
handleUpdateStory(proj, updatedStory) ==
  [proj EXCEPT
     !.epics = [e \in DOMAIN proj.epics |->
                  IF proj.epics[e].id = updatedStory.epicId
                  THEN [proj.epics[e] EXCEPT
                          !.stories = [i \in DOMAIN proj.epics[e].stories |->
                                         IF proj.epics[e].stories[i].id = updatedStory.id
                                         THEN updatedStory
                                         ELSE proj.epics[e].stories[i]]]
                  ELSE proj.epics[e]]]

\* handleDeleteEpic: the project without the epic
WithoutEpic(proj, epicId) ==
  [proj EXCEPT !.epics = SelectSeq(proj.epics, LAMBDA e : e.id # epicId)]

(***************************************************************************)
(* Initial state: ProjectWorkspace as the route /project/:projectId mounts  *)
(* it, no story selected.  The project is the one AppContent holds; its    *)
(* story may carry a history from earlier work on the page, built by the   *)
(* editor's own createSnapshot (AI updates whose response was empty, so    *)
(* that the versions hold the array of the story).                         *)
(***************************************************************************)
NewStory(id, versions) ==
  [id |-> id, epicId |-> "e1", title |-> "A", description |-> "A",
   acceptanceCriteria |-> 1, happyPath |-> "A", sadPath |-> "A",
   status |-> "Draft", versions |-> versions,
   relationships |-> <<[id |-> "r1", targetStoryId |-> "s2", type |-> "relates-to"]>>,
   activeUserIds |-> <<CURRENT_USER>>]

\* The story after n earlier AI updates, at the times -n .. -1.
RECURSIVE PriorSession(_, _)
PriorSession(saved, n) ==
  IF n = 0 THEN saved
  ELSE PriorSession(
         [saved EXCEPT !.versions = createSnapshot(saved, <<"AI Architect">>, <<>>, -n, -n)],
         n - 1)

InitProject(n) ==
  [id |-> "p1",
   epics |-> <<[id |-> "e1", stories |-> <<PriorSession(NewStory("s1", <<>>), n)>>]>>]

InitWith(n) ==
  /\ project = InitProject(n)
  /\ activeStoryId = NULL
  /\ previewVersionId = NO_VERSION
  /\ showHistory = FALSE
  /\ isChatLoading = FALSE
  /\ pending = <<>>
  /\ clock = 0
  /\ heap = <<<<"A">>>>
  /\ edits = 0
  /\ captures = 0

\* a project whose story has no history
Init == InitWith(0)

\* a project with two epics of one story each; the first story has one version
InitTwo ==
  /\ project = [id |-> "p1",
                epics |-> <<[id |-> "e1",
                             stories |-> <<PriorSession(NewStory("s1", <<>>), 1)>>],
                            [id |-> "e2",
                             stories |-> <<[NewStory("s2", <<>>) EXCEPT
                                              !.epicId = "e2",
                                              !.acceptanceCriteria = 2]>>]>>]
  /\ activeStoryId = NULL
  /\ previewVersionId = NO_VERSION
  /\ showHistory = FALSE
  /\ isChatLoading = FALSE
  /\ pending = <<>>
  /\ clock = 0
  /\ heap = <<<<"A">>, <<"A">>>>
  /\ edits = 0
  /\ captures = 0

\* a project whose story has one version less than the history holds
InitLong == InitWith(MAX_VERSIONS - 1)

(***************************************************************************)
(* The Editor is rendered only while the active story exists; when it is   *)
(* not, the component is unmounted, its state is lost, and the calls it    *)
(* awaits go on without it.                                                *)
(***************************************************************************)
Mounted == HasStory(project, activeStoryId)

story == activeStory(project, activeStoryId)

Render(proj, active, preview, history, loading, calls) ==
  /\ project' = proj
  /\ activeStoryId' = active
  /\ IF HasStory(proj, active)
     THEN /\ previewVersionId' = preview
          /\ showHistory' = history
          /\ isChatLoading' = loading
          /\ pending' = calls
     ELSE /\ previewVersionId' = NO_VERSION
          /\ showHistory' = FALSE
          /\ isChatLoading' = FALSE
          /\ pending' = [i \in DOMAIN calls |-> [calls[i] EXCEPT !.mounted = FALSE]]

\* The values Date.now() may return later in the same handler.
Later(now) == now..Min(now + 1, MaxClock)

(***************************************************************************)
(* Actions.                                                                *)
(***************************************************************************)
Tick ==
  /\ clock < MaxClock
  /\ clock' = clock + 1
  /\ UNCHANGED <<project, activeStoryId, previewVersionId, showHistory,
                 isChatLoading, pending, heap, edits, captures>>

\* Sidebar: onSelectStory
SelectStory ==
  \E i \in 1..Len(FlatStories(project.epics)) :
    /\ Render(project, FlatStories(project.epics)[i].id, previewVersionId,
              showHistory, isChatLoading, pending)
    /\ UNCHANGED <<clock, heap, edits, captures>>

\* Sidebar: the delete button of an epic, confirmed; handleDeleteEpic
DeleteEpic ==
  \E e \in 1..Len(project.epics) :
    /\ Render(WithoutEpic(project, project.epics[e].id),
              IF \E i \in 1..Len(project.epics[e].stories) :
                   project.epics[e].stories[i].id = activeStoryId
              THEN NULL
              ELSE activeStoryId,
              previewVersionId, showHistory, isChatLoading, pending)
    /\ UNCHANGED <<clock, heap, edits, captures>>

\* handleFieldChange without the check of the preview
handleFieldChange_NoGuard(field, value) ==
  /\ edits < MaxEdits
  /\ edits' = edits + 1
  /\ Render(handleUpdateStory(project, Spread(story, field :> value)),
            activeStoryId, previewVersionId, showHistory, isChatLoading, pending)
  /\ UNCHANGED <<clock, captures>>

\* handleFieldChange that takes a snapshot with every update
handleFieldChange_Captures(field, value) ==
  IF previewVersionId # NO_VERSION
  THEN UNCHANGED vars
  ELSE /\ edits < MaxEdits
       /\ edits' = edits + 1
       /\ Render(handleUpdateStory(project,
                   Spread(story, (field :> value) @@
                                 ("versions" :> createSnapshot(story, <<"Gemini AI">>, <<>>,
                                                               clock, clock)))),
                 activeStoryId, previewVersionId, showHistory, isChatLoading, pending)
       /\ UNCHANGED <<clock, captures>>

\* handleFieldChange(field, value)
handleFieldChange(field, value) ==
  IF previewVersionId # NO_VERSION
  THEN UNCHANGED vars
  ELSE /\ edits < MaxEdits
       /\ edits' = edits + 1
       /\ Render(handleUpdateStory(project, Spread(story, field :> value)),
                 activeStoryId, previewVersionId, showHistory, isChatLoading, pending)
       /\ UNCHANGED <<clock, captures>>

\* handleACChange that writes into the array of the story
handleACChange_InPlace(index, value) ==
  IF previewVersionId # NO_VERSION
  THEN UNCHANGED vars
  ELSE /\ heap' = [heap EXCEPT ![story.acceptanceCriteria] = ACChanged(@, index, value)]
       /\ handleFieldChange("acceptanceCriteria", story.acceptanceCriteria)

\* handleACChange(index, value)
handleACChange(index, value) ==
  IF previewVersionId # NO_VERSION
  THEN UNCHANGED vars
  ELSE /\ heap' = Append(heap, ACChanged(heap[story.acceptanceCriteria], index, value))
       /\ handleFieldChange("acceptanceCriteria", Len(heap) + 1)

\* handleRemoveRelationship(relId)
handleRemoveRelationship(relId) ==
  /\ handleFieldChange("relationships",
                       SelectSeq(story.relationships, LAMBDA r : r.id # relId))
  /\ UNCHANGED heap

\* The array built for an update is an object of the heap when the update
\* is committed; when handleFieldChange returns early nothing refers to it.
Allocated(array) == heap' = IF project' = project THEN heap ELSE Append(heap, array)

\* the title, narrative, flow and design-reference inputs
ChangeText ==
  /\ Mounted
  /\ \E field \in TextFields, value \in Texts : handleFieldChange(field, value)
  /\ UNCHANGED heap

\* the status menu
ChangeStatus ==
  /\ Mounted
  /\ \E status \in Statuses : handleFieldChange("status", status)
  /\ UNCHANGED heap

\* the input of one acceptance criterion
ChangeCriterion ==
  /\ Mounted
  /\ \E idx \in 0..(Len(heap[displayedStory(story, previewVersionId).acceptanceCriteria]) - 1),
        value \in Texts :
       handleACChange(idx, value)

\* "+ Add Criterion"
AddCriterion ==
  /\ Mounted
  /\ handleFieldChange("acceptanceCriteria", Len(heap) + 1)
  /\ Allocated(Append(heap[displayedStory(story, previewVersionId).acceptanceCriteria], ""))

\* the trash button of one acceptance criterion
RemoveCriterion ==
  /\ Mounted
  /\ \E idx \in 0..(Len(heap[displayedStory(story, previewVersionId).acceptanceCriteria]) - 1) :
       /\ handleFieldChange("acceptanceCriteria", Len(heap) + 1)
       /\ Allocated(RemoveAt(heap[displayedStory(story, previewVersionId).acceptanceCriteria], idx))

\* the remove button of one related document
RemoveRelationship ==
  /\ Mounted
  /\ \E i \in 1..Len(story.relationships) :
       handleRemoveRelationship(story.relationships[i].id)

\* toggleFollow
ToggleFollow ==
  /\ Mounted
  /\ handleFieldChange("activeUserIds",
       IF \E i \in 1..Len(story.activeUserIds) : story.activeUserIds[i] = CURRENT_USER
       THEN SelectSeq(story.activeUserIds, LAMBDA id : id # CURRENT_USER)
       ELSE Append(story.activeUserIds, CURRENT_USER))
  /\ UNCHANGED heap

\* handleSmartAction that does not look at isChatLoading
SmartActionStart_NoGuard ==
  /\ Mounted
  /\ \E chatInput \in ChatInputs :
       IF Trim(chatInput) = ""
       THEN UNCHANGED vars
       ELSE /\ Len(pending) < MaxPending
            /\ isChatLoading' = TRUE
            /\ pending' = Append(pending, [story |-> story,
                                           project |-> project,
                                           figmaUrl |-> detectedFigmaUrl(chatInput),
                                           mounted |-> TRUE])
            /\ UNCHANGED <<project, activeStoryId, previewVersionId, showHistory,
                           clock, heap, edits, captures>>

\* handleSmartAction up to the await: the call is started with the story,
\* the detected link and the onUpdate of this render
SmartActionStart ==
  /\ Mounted
  /\ \E chatInput \in ChatInputs :
       IF Trim(chatInput) = "" \/ isChatLoading
       THEN UNCHANGED vars
       ELSE /\ Len(pending) < MaxPending
            /\ isChatLoading' = TRUE
            /\ pending' = Append(pending, [story |-> story,
                                           project |-> project,
                                           figmaUrl |-> detectedFigmaUrl(chatInput),
                                           mounted |-> TRUE])
            /\ UNCHANGED <<project, activeStoryId, previewVersionId, showHistory,
                           clock, heap, edits, captures>>

\* JSON.parse(response.text): the array of the response is a new object
ParsedResponse(generated, ref) ==
  IF "acceptanceCriteria" \in DOMAIN generated
  THEN [generated EXCEPT !.acceptanceCriteria = ref]
  ELSE generated

\* handleSmartAction after the await, the call having returned `generated`
SmartActionResolve ==
  \E i \in 1..Len(pending), generated \in GeneratedStories :
    \E tsNow \in Later(clock) :
      LET call == pending[i]
      IN /\ captures < MaxCaptures
         /\ captures' = captures + 1
         /\ clock' = tsNow
         /\ heap' = IF "acceptanceCriteria" \in DOMAIN generated
                    THEN Append(heap, generated.acceptanceCriteria)
                    ELSE heap
         /\ Render(handleUpdateStory(call.project,
                                     GeneratedStory(call.story,
                                                    ParsedResponse(generated, Len(heap) + 1),
                                                    call.figmaUrl, clock, tsNow)),
                   activeStoryId, previewVersionId, showHistory,
                   IF call.mounted THEN FALSE ELSE isChatLoading,
                   RemoveAt(pending, i - 1))
         /\ UNCHANGED edits

\* a catch that writes the story of the request back to the project
SmartActionReject_Applies ==
  \E i \in 1..Len(pending) :
    /\ Render(handleUpdateStory(pending[i].project, pending[i].story),
              activeStoryId, previewVersionId, showHistory,
              IF pending[i].mounted THEN FALSE ELSE isChatLoading,
              RemoveAt(pending, i - 1))
    /\ UNCHANGED <<clock, heap, edits, captures>>

\* a catch with no finally: the loading flag stays as it is
SmartActionReject_KeepsLoading ==
  \E i \in 1..Len(pending) :
    /\ pending' = RemoveAt(pending, i - 1)
    /\ UNCHANGED <<project, activeStoryId, previewVersionId, showHistory,
                   isChatLoading, clock, heap, edits, captures>>

\* handleSmartAction after the await, the call or JSON.parse having thrown
SmartActionReject ==
  \E i \in 1..Len(pending) :
    /\ isChatLoading' = IF pending[i].mounted THEN FALSE ELSE isChatLoading
    /\ pending' = RemoveAt(pending, i - 1)
    /\ UNCHANGED <<project, activeStoryId, previewVersionId, showHistory,
                   clock, heap, edits, captures>>

\* the history button of the header
ToggleHistory ==
  /\ Mounted
  /\ showHistory' = ~showHistory
  /\ UNCHANGED <<project, activeStoryId, previewVersionId, isChatLoading,
                 pending, clock, heap, edits, captures>>

\* the close button of the history panel
CloseHistory ==
  /\ Mounted
  /\ showHistory
  /\ showHistory' = FALSE
  /\ previewVersionId' = NO_VERSION
  /\ UNCHANGED <<project, activeStoryId, isChatLoading, pending, clock, heap, edits, captures>>

\* a preview that writes the version shown into the story
SelectVersion_Applies ==
  /\ Mounted
  /\ showHistory
  /\ \E i \in 1..Len(story.versions) :
       /\ previewVersionId' = story.versions[i].id
       /\ project' = handleUpdateStory(project, displayedStory(story, story.versions[i].id))
  /\ UNCHANGED <<activeStoryId, showHistory, isChatLoading, pending, clock, heap, edits, captures>>

\* a click on one version of the history panel
SelectVersion ==
  /\ Mounted
  /\ showHistory
  /\ \E i \in 1..Len(story.versions) : previewVersionId' = story.versions[i].id
  /\ UNCHANGED <<project, activeStoryId, showHistory, isChatLoading, pending,
                 clock, heap, edits, captures>>

\* a click on "Live Workspace"
ClearPreview ==
  /\ Mounted
  /\ showHistory
  /\ previewVersionId' = NO_VERSION
  /\ UNCHANGED <<project, activeStoryId, showHistory, isChatLoading, pending,
                 clock, heap, edits, captures>>

\* handleRevert that leaves the preview selection as it is
handleRevert_KeepsPreview(version) ==
  \E tsNow \in Later(clock) :
    /\ captures < MaxCaptures
    /\ captures' = captures + 1
    /\ clock' = tsNow
    /\ Render(handleUpdateStory(project, RevertedStory(story, version, clock, tsNow)),
              activeStoryId, previewVersionId, FALSE, isChatLoading, pending)
    /\ UNCHANGED <<heap, edits>>

\* handleRevert(version), from the button of a version shown as previewed
handleRevert(version) ==
  \E tsNow \in Later(clock) :
    /\ captures < MaxCaptures
    /\ captures' = captures + 1
    /\ clock' = tsNow
    /\ Render(handleUpdateStory(project, RevertedStory(story, version, clock, tsNow)),
              activeStoryId, NO_VERSION, FALSE, isChatLoading, pending)
    /\ UNCHANGED <<heap, edits>>

\* a restore button on every version of the panel, previewed or not
Revert_AnyVersion ==
  /\ Mounted
  /\ showHistory
  /\ \E i \in 1..Len(story.versions) : handleRevert(story.versions[i])

\* the restore button, rendered on the entry of the previewed version only
Revert ==
  /\ Mounted
  /\ showHistory
  /\ \E i \in 1..Len(story.versions) :
       /\ previewVersionId = story.versions[i].id
       /\ handleRevert(story.versions[i])

Next ==
  \/ Tick
  \/ SelectStory
  \/ ChangeText
  \/ ChangeStatus
  \/ ChangeCriterion
  \/ AddCriterion
  \/ RemoveCriterion
  \/ RemoveRelationship
  \/ ToggleFollow
  \/ SmartActionStart
  \/ SmartActionResolve
  \/ SmartActionReject
  \/ ToggleHistory
  \/ CloseHistory
  \/ SelectVersion
  \/ ClearPreview
  \/ Revert

Spec == Init /\ [][Next]_vars

\* The editor on a story with a long history; time passes inside the handlers.
NextLong ==
  \/ SelectStory
  \/ ToggleFollow
  \/ SmartActionStart
  \/ SmartActionResolve
  \/ SmartActionReject
  \/ ToggleHistory
  \/ CloseHistory
  \/ SelectVersion
  \/ ClearPreview
  \/ Revert

SpecLong == InitLong /\ [][NextLong]_vars

\* createSnapshot called NumLabelled times in a row, the k-th call with the
\* author label "A" followed by k.
CaptureLabelled ==
  /\ Mounted
  /\ captures < NumLabelled
  /\ \E tsNow \in Later(clock) :
       /\ project' = handleUpdateStory(project,
                       [story EXCEPT !.versions =
                          createSnapshot(story, <<"A", captures>>, <<>>, clock, tsNow)])
       /\ clock' = tsNow
  /\ captures' = captures + 1
  /\ UNCHANGED <<activeStoryId, previewVersionId, showHistory, isChatLoading,
                 pending, heap, edits>>

NextCapture ==
  \/ Tick
  \/ SelectStory
  \/ CaptureLabelled

SpecCapture == Init /\ [][NextCapture]_vars

\* handleACChange called with any index, also one that no input of the
\* rendered list has
ChangeCriterionAt ==
  /\ Mounted
  /\ \E index \in 0..MaxIndex, value \in Texts : handleACChange(index, value)

NextIndex ==
  \/ Tick
  \/ SelectStory
  \/ AddCriterion
  \/ RemoveCriterion
  \/ ChangeCriterionAt
  \/ SmartActionStart
  \/ SmartActionResolve
  \/ SmartActionReject
  \/ ToggleHistory
  \/ CloseHistory
  \/ SelectVersion
  \/ ClearPreview
  \/ Revert

SpecIndex == Init /\ [][NextIndex]_vars

\* The workspace with two stories: switching between them and deleting
\* their epics while the editor works.
NextTwo ==
  \/ SelectStory
  \/ DeleteEpic
  \/ SmartActionStart
  \/ SmartActionResolve
  \/ SmartActionReject
  \/ ToggleHistory
  \/ SelectVersion

SpecTwo == InitTwo /\ [][NextTwo]_vars

\* The requests of the editor and what becomes of them; the call to the
\* model returns or throws in the end.
NextAwait ==
  \/ SelectStory
  \/ DeleteEpic
  \/ SmartActionStart
  \/ SmartActionResolve
  \/ SmartActionReject

SpecAwait ==
  /\ Init
  /\ [][NextAwait]_vars
  /\ WF_vars(SmartActionResolve \/ SmartActionReject)

TypeOK ==
  /\ clock \in 0..MaxClock
  /\ edits \in 0..MaxEdits
  /\ captures \in 0..NumLabelled
  /\ showHistory \in BOOLEAN
  /\ isChatLoading \in BOOLEAN
  /\ Len(pending) <= MaxPending
  /\ \A i \in 1..Len(FlatStories(project.epics)) :
       /\ FlatStories(project.epics)[i].acceptanceCriteria \in 1..Len(heap)
       /\ \A j \in 1..Len(FlatStories(project.epics)[i].versions) :
            FlatStories(project.epics)[i].versions[j].acceptanceCriteria \in 1..Len(heap)

(***************************************************************************)
(* Properties.                                                             *)
(***************************************************************************)
Stories == FlatStories(project.epics)

\* the narrative fields, which a version copies; the criteria are those of
\* the array that the record refers to
Content(r) ==
  [f \in ContentFields |-> IF f = "acceptanceCriteria" THEN heap[r[f]] ELSE r[f]]

IsRollback(version) == version.authorName[1] = "Rollback to "

\* C1: whatever the editor does (field edits, AI updates, restores, preview
\* selection), no story's versions list ever holds more than 20 entries.
C1_VersionsBounded ==
  \A i \in 1..Len(Stories) : Len(Stories[i].versions) <= 20

\* the history is full and captures of this session have evicted the oldest entry
C1_Witness ==
  /\ Mounted
  /\ captures = 2
  /\ Len(story.versions) = 20
  /\ story.versions[20].timestamp = 2 - MAX_VERSIONS

\* C2: every story's versions list is ordered newest-first: the timestamp of
\* each entry is at least the timestamp of the entry after it, AI updates and
\* restores interleaved in any way.
C2_NewestFirst ==
  \A i \in 1..Len(Stories) :
    \A j \in 1..(Len(Stories[i].versions) - 1) :
      Stories[i].versions[j].timestamp >= Stories[i].versions[j + 1].timestamp

\* an AI update applied on top of a restore, later than it
C2_Witness ==
  /\ Mounted
  /\ Len(story.versions) = 20
  /\ ~IsRollback(story.versions[1])
  /\ IsRollback(story.versions[2])
  /\ story.versions[1].timestamp > story.versions[2].timestamp

\* C3: after k captures in a row on an empty history the list holds exactly
\* the min(k, 20) most recent captures, newest first: the entry at position i
\* (from 1) is the capture labelled k - i, the older ones are gone.
C3_OldestEvicted ==
  \A s \in 1..Len(Stories) :
    /\ Len(Stories[s].versions) = Min(captures, 20)
    /\ \A i \in 1..Len(Stories[s].versions) :
         Stories[s].versions[i].authorName = <<"A", captures - i>>

\* 25 captures A0 .. A24 leave 20 entries, A24 first and A5 last
C3_Witness ==
  /\ captures = 25
  /\ Len(Stories[1].versions) = 20
  /\ Stories[1].versions[1].authorName = <<"A", 24>>
  /\ Stories[1].versions[20].authorName = <<"A", 5>>

Previewing == previewVersionId # NO_VERSION

\* the fields of a story that a restore is not to touch
OtherFields(r) == [f \in (DOMAIN r) \ (ContentFields \cup {"versions"}) |-> r[f]]

\* the restore of the version at position i of the history
RevertOf(i) ==
  /\ Mounted
  /\ showHistory
  /\ i \in 1..Len(story.versions)
  /\ previewVersionId = story.versions[i].id
  /\ handleRevert(story.versions[i])

\* C4: while a version is previewed, no step other than a restore changes
\* the project: not the live fields of the story, not its versions list.
C4_PreviewFreezesStory ==
  [][(Previewing /\ ~Revert) => project' = project]_vars

\* C5: while a version is previewed, every field update (text fields,
\* status, acceptance criteria, relationships, follow) leaves the project
\* as it is.
C5_EditsRejectedInPreview ==
  [][(Previewing /\ (\/ ChangeText \/ ChangeStatus \/ ChangeCriterion \/ AddCriterion
                     \/ RemoveCriterion \/ RemoveRelationship \/ ToggleFollow))
       => project' = project]_vars

\* a version is previewed that differs from the live story, and an edit is still allowed
C5_Witness ==
  /\ Mounted
  /\ Previewing
  /\ edits < MaxEdits
  /\ Content(displayedStory(story, previewVersionId)) # Content(story)

\* C6: selecting a version, selecting another one and clearing the preview
\* leave the project as it is; selecting and clearing change nothing but the
\* previewed version id.
C6_PreviewOnlySelects ==
  [][/\ (SelectVersion \/ ClearPreview \/ CloseHistory) => project' = project
     /\ (SelectVersion \/ ClearPreview) =>
          UNCHANGED <<project, activeStoryId, showHistory, isChatLoading, pending,
                      heap, edits, captures>>]_vars

\* the older of two versions is previewed and shows other content than the live story
C6_Witness ==
  /\ Mounted
  /\ Len(story.versions) = 2
  /\ story.versions[1].id # story.versions[2].id
  /\ previewVersionId = story.versions[2].id
  /\ Content(story.versions[2]) # Content(story)

\* C7 as stated: the version a restore creates holds the content of the
\* story after the restore.
C7_SnapshotIsPostRestore ==
  [][Revert => Content(story'.versions[1]) = Content(story')]_vars

\* C7 amended: the version a restore creates holds the content the live
\* story had right before the restore.
C7_SnapshotIsPreRestore ==
  [][Revert => Content(story'.versions[1]) = Content(story)]_vars

\* a restore has changed the content: the rollback version differs from the live story
C7_Witness ==
  /\ Mounted
  /\ Len(story.versions) >= 1
  /\ IsRollback(story.versions[1])
  /\ Content(story.versions[1]) # Content(story)

\* C8: after a restore the content that it has overwritten is the content of
\* the first version: previewing that version shows it, and restoring that
\* version would bring it back.
C8_OverwrittenRecoverable ==
  [][Revert =>
       /\ Content(displayedStory(story', story'.versions[1].id)) = Content(story)
       /\ Content(RevertedStory(story', story'.versions[1], clock', clock')) = Content(story)]_vars

\* the title typed before the restore is kept by the rollback version
C8_Witness ==
  /\ Mounted
  /\ Len(story.versions) = 2
  /\ IsRollback(story.versions[1])
  /\ story.versions[1].title = "B"
  /\ story.title = "A"

\* C9: a restore adds exactly one version, whatever the content: the list
\* is the new version in front of the old list, cut to 20 entries, and the
\* author label of the new version begins with "Rollback to ".
C9_RestoreAddsOne ==
  [][Revert =>
       /\ Len(story'.versions) = Min(Len(story.versions) + 1, 20)
       /\ IsRollback(story'.versions[1])
       /\ Tail(story'.versions) = SubSeq(story.versions, 1, Len(story'.versions) - 1)]_vars

\* two restores on a history of 19: the second one found the history full
C9_Witness ==
  /\ Mounted
  /\ Len(story.versions) = 20
  /\ IsRollback(story.versions[1])
  /\ IsRollback(story.versions[2])
  /\ story.versions[20].timestamp = 2 - MAX_VERSIONS

\* C10: after the restore of a version the narrative fields of the live
\* story are the version's, and the other fields of the story (id, epicId,
\* status, figmaUrl, relationships, activeUserIds) are as before.
C10_RestoreCopiesContent ==
  [][\A i \in 1..20 :
       RevertOf(i) =>
         /\ Content(story') = Content(story.versions[i])
         /\ OtherFields(story') = OtherFields(story)]_vars

\* a restore has brought back the content of the older version
C10_Witness ==
  /\ Mounted
  /\ Len(story.versions) = 2
  /\ IsRollback(story.versions[1])
  /\ Content(story) = Content(story.versions[2])
  /\ Content(story) # Content(story.versions[1])
  /\ "figmaUrl" \in DOMAIN story

\* the field updates of the editor
FieldUpdate ==
  \/ ChangeText
  \/ ChangeStatus
  \/ ChangeCriterion
  \/ AddCriterion
  \/ RemoveCriterion
  \/ RemoveRelationship
  \/ ToggleFollow

IsGenerated(version) == version.authorName \in {<<"Figma AI Bridge">>, <<"AI Architect">>}

\* C12: a version that a step keeps in the history keeps all its fields; its
\* acceptance criteria are those of an array, which no step writes into,
\* whoever else holds that array (the live story after a capture or a
\* restore).
C12_VersionsImmutable ==
  [][/\ \A r \in 1..Len(heap) : r <= Len(heap') /\ heap'[r] = heap[r]
     /\ \A s \in 1..Len(Stories) :
          \A i \in 1..Len(Stories[s].versions) :
            (\E j \in 1..Len(Stories'[s].versions) :
               Stories'[s].versions[j] = Stories[s].versions[i])
            => heap'[Stories[s].versions[i].acceptanceCriteria]
                 = heap[Stories[s].versions[i].acceptanceCriteria]]_vars

\* after a restore the story held the array of the versions; a criterion was
\* then edited and the versions still have the generated criteria
C12_Witness ==
  /\ Mounted
  /\ Len(story.versions) = 2
  /\ IsRollback(story.versions[1])
  /\ story.versions[1].acceptanceCriteria = story.versions[2].acceptanceCriteria
  /\ story.acceptanceCriteria # story.versions[2].acceptanceCriteria
  /\ heap[story.versions[2].acceptanceCriteria] = <<"G">>
  /\ heap[story.acceptanceCriteria] # <<"G">>
  /\ edits = 1

\* C13: a committed edit that changes the title or the description adds one
\* version, which holds the title and the description from before the edit.
C13_TitleEditCaptures ==
  [][(/\ Mounted
      /\ ~Previewing
      /\ ChangeText
      /\ (story'.title # story.title \/ story'.description # story.description))
       => /\ Len(story'.versions) = Min(Len(story.versions) + 1, 20)
          /\ story'.versions[1].title = story.title
          /\ story'.versions[1].description = story.description]_vars

\* C14: a committed field update that leaves the title and the description
\* as they are leaves the versions list as it is.
C14_MinorEditsCaptureNothing ==
  [][(/\ Mounted
      /\ FieldUpdate
      /\ story'.title = story.title
      /\ story'.description = story.description)
       => story'.versions = story.versions]_vars

\* the criteria were edited, title and description are the first ones, no version exists
C14_Witness ==
  /\ Mounted
  /\ edits = 1
  /\ captures = 0
  /\ story.title = "A"
  /\ story.description = "A"
  /\ heap[story.acceptanceCriteria] # <<"A">>
  /\ story.versions = <<>>

\* C16: when the result of an AI call is applied, the version it adds has
\* the narrative fields of the story as updated: right after the step the
\* first version and the live story have the same title, description,
\* acceptance criteria, happy path and sad path.
C16_SnapshotOfGenerated ==
  [][SmartActionResolve =>
       (/\ Len(Stories[1].versions) >= 1
        /\ IsGenerated(Stories[1].versions[1])
        /\ Content(Stories[1].versions[1]) = Content(Stories[1]))']_vars

\* a design link was analysed: the first version has the generated text, as the story has
C16_Witness ==
  /\ Mounted
  /\ Len(story.versions) = 1
  /\ story.versions[1].authorName = <<"Figma AI Bridge">>
  /\ story.versions[1].description = "G"
  /\ story.description = "G"
  /\ heap[story.versions[1].acceptanceCriteria] = <<"G">>

\* C18: after a restore no version is previewed, and the document shown is
\* the live story that the restore has produced.
C18_RestoreReturnsToLive ==
  [][Revert => /\ previewVersionId' = NO_VERSION
               /\ displayedStory(story', previewVersionId') = story']_vars

\* a restore is done: the history panel is closed, the live story is shown
C18_Witness ==
  /\ Mounted
  /\ Len(story.versions) = 2
  /\ IsRollback(story.versions[1])
  /\ previewVersionId = NO_VERSION
  /\ ~showHistory
  /\ Content(story) = Content(story.versions[2])
  /\ captures = 2

\* the versions list `new` is one version in front of the list `old`, cut to 20
Prepended(old, new) ==
  /\ Len(new) = Min(Len(old) + 1, 20)
  /\ Tail(new) = SubSeq(old, 1, Len(new) - 1)

\* C11: a restore leaves the earlier history as it was: the list after the
\* restore is the rollback version followed by the list before the restore,
\* same order, same content, cut to the first 20 entries.
C11_RestoreKeepsHistory ==
  [][Revert => /\ Prepended(story.versions, story'.versions)
               /\ \A i \in 2..Len(story'.versions) :
                    Content(story'.versions[i]) = Content(story.versions[i - 1])]_vars

\* an AI update, then a restore on the full history: the rollback version
\* is in front of the AI version and of the 18 versions kept from before
C11_Witness ==
  /\ Mounted
  /\ Len(story.versions) = 20
  /\ IsRollback(story.versions[1])
  /\ IsGenerated(story.versions[2])
  /\ story.versions[2].timestamp >= 0
  /\ story.versions[20].timestamp = 2 - MAX_VERSIONS

\* C15: every AI call that returns adds exactly one version in front of the
\* history of the story, with the author label "Figma AI Bridge" or
\* "AI Architect", whatever the generated content.
C15_GenerationAddsOne ==
  [][SmartActionResolve =>
       \A s \in 1..Len(Stories) :
         /\ Prepended(Stories[s].versions, Stories'[s].versions)
         /\ IsGenerated(Stories'[s].versions[1])]_vars

C19_StalePreviewReset ==
  (Mounted /\ Previewing) => FindVersion(story.versions, previewVersionId) # 0

\* C20: a step leaves the versions list of a story as it is, or puts one
\* new version in front of it and cuts it to 20 entries.
C20_OnlyCaptureChangesHistory ==
  [][\A s \in 1..Len(Stories) :
       \/ Stories'[s].versions = Stories[s].versions
       \/ Prepended(Stories[s].versions, Stories'[s].versions)]_vars

\* C21: no two versions in the history of a story have the same id, also
\* when two captures happen at the same value of the clock.
C21_VersionIdsUnique ==
  \A s \in 1..Len(Stories) :
    \A i, j \in 1..Len(Stories[s].versions) :
      i # j => Stories[s].versions[i].id # Stories[s].versions[j].id

\* the call is stale: the story it was started for is no longer the one the
\* editor shows, the user having selected another story or deleted its epic
Stale(call) == ~Mounted \/ call.story.id # activeStoryId

\* C22: the response of a call whose story is no longer shown, or no longer
\* in the project, is ignored: the project with all its stories stays as it
\* is, and a story deleted in the meantime is not brought back.
C22_StaleResponseIgnored ==
  [][(/\ SmartActionResolve
      /\ \A i \in 1..Len(pending) : Stale(pending[i])) => project' = project]_vars

\* C23: applying an AI response loses no work committed while the call was
\* in flight: the project has the stories it had right before the response,
\* each with the status, relationships and followers it had (fields that no
\* response carries), and with the history it had, at most one version put
\* in front of it.
C23_NoLostUpdate ==
  [][SmartActionResolve =>
       /\ Len(Stories') = Len(Stories)
       /\ \A s \in 1..Len(Stories) :
            /\ Stories'[s].status = Stories[s].status
            /\ Stories'[s].relationships = Stories[s].relationships
            /\ Stories'[s].activeUserIds = Stories[s].activeUserIds
            /\ \/ Stories'[s].versions = Stories[s].versions
               \/ Prepended(Stories[s].versions, Stories'[s].versions)]_vars

\* C24: whenever a version is selected for preview, its id is the id of one
\* of the versions of the story that the editor shows, whichever story was
\* selected since and whatever was captured since.
C24_PreviewOfShownStory ==
  (Mounted /\ Previewing) =>
    previewVersionId \in {story.versions[i].id : i \in 1..Len(story.versions)}

C26_RestoreOnlyFromPreview ==
  [][(Mounted /\ \E i \in 1..Len(story.versions) : handleRevert(story.versions[i]))
       => /\ Previewing
          /\ \E j \in 1..Len(story.versions) :
               /\ story.versions[j].id = previewVersionId
               /\ handleRevert(story.versions[j])]_vars

\* a version captured at time 0 has been previewed and restored at time 1
C26_Witness ==
  /\ Mounted
  /\ Len(story.versions) = 2
  /\ IsRollback(story.versions[1])
  /\ story.versions[1].timestamp = 1
  /\ story.versions[2].timestamp = 0
  /\ ~Previewing
  /\ ~isChatLoading

\* the calls in flight that the editor on screen has started
InFlight == {i \in 1..Len(pending) : pending[i].mounted}

\* C27: an editor has at most one AI request in flight, and it has one
\* exactly while its loading flag is set: a submit while the flag is set
\* starts no second request.
C27_OneRequestInFlight ==
  /\ Cardinality(InFlight) <= 1
  /\ isChatLoading <=> InFlight # {}

\* the editor on screen awaits its request while the request of an editor
\* that was unmounted is still in flight
C27_Witness ==
  /\ Mounted
  /\ isChatLoading
  /\ Len(pending) = 2
  /\ ~pending[1].mounted
  /\ pending[2].mounted

\* C28: the editor never stays in the loading state: whenever the loading
\* flag is set it is cleared later, the call having returned or thrown.
C28_LoadingEnds ==
  isChatLoading ~> ~isChatLoading

\* a second request is awaited after the response to a first one was applied
C28_Witness ==
  /\ Mounted
  /\ isChatLoading
  /\ Len(pending) = 1
  /\ pending[1].mounted
  /\ captures = 1

\* C29: a call that throws, or whose response cannot be parsed, leaves the
\* project as it is: every step that ends a pending call without applying
\* a response changes no field of any story and captures no version.
C29_FailureChangesNothing ==
  [][(Len(pending') < Len(pending) /\ ~SmartActionResolve)
       => (project' = project /\ heap' = heap)]_vars

\* a request is in flight and the story was edited since it was started, so
\* that a write of the story of the request would be seen
C29_Witness ==
  /\ Mounted
  /\ isChatLoading
  /\ Len(pending) = 1
  /\ pending[1].story.id = story.id
  /\ pending[1].story # story
  /\ edits = 1
  /\ captures = 0

\* C30: while the history panel is hidden no version is previewed.
C30_HiddenPanelNoPreview ==
  (Mounted /\ ~showHistory) => ~Previewing

====
